---- MODULE Spec2Model ----
(***************************************************************************)
(* Model of the Mint-NFT-Server HTTP API.  Three versions of the server    *)
(* file are modelled, selected by the variable `variant`:                  *)
(*   "part_000" : src/unnamed/part_000 (single connect attempt, no health  *)
(*                route, no gate, no existence check, no sort)             *)
(*   "index"    : src/index.js (retry, health, gate, store route only)     *)
(*   "part_001" : src/unnamed/part_001 (retry, health, gate, all routes)   *)
(***************************************************************************)
EXTENDS Integers, Sequences, FiniteSets, Bags, TLC

\* ------------------------------------------------------------------ bounds
MaxRetries == 5
MaxDocs == 2
MaxClock == 1

\* default of connectToMongo's parameter
DefaultRetries == 5

Variants == {"part_000", "index", "part_001"}

\* ------------------------------------------------------- JavaScript values
\* A JSON/JavaScript value: t is its type tag, n its number, s its string.
Undef == [t |-> "undefined", n |-> 0, s |-> ""]
NaN == [t |-> "NaN", n |-> 0, s |-> ""]
Num(k) == [t |-> "number", n |-> k, s |-> ""]
Str(x) == [t |-> "string", n |-> 0, s |-> x]

\* JavaScript truthiness, as used by the `!field` presence checks
Truthy(v) ==
    CASE v.t = "number" -> v.n /= 0
      [] v.t = "string" -> v.s /= ""
      [] OTHER -> FALSE

\* Number(v) on the values the model uses
ToNumber(v) ==
    CASE v.t = "number" -> v
      [] v.t = "string" /\ v.s = "" -> Num(0)
      [] v.t = "string" /\ v.s = "0" -> Num(0)
      [] v.t = "string" /\ v.s = "1" -> Num(1)
      [] v.t = "string" /\ v.s = "2" -> Num(2)
      [] OTHER -> NaN

\* isNaN(v) for a value produced by ToNumber
IsNaN(v) == v.t = "NaN"

\* ---------------------------------------------------------------- requests
NoBody ==
    [nftId |-> Undef, name |-> Undef, description |-> Undef,
     logoUrl |-> Undef, userWalletAddress |-> Undef]

ValidBody(id, w) ==
    [nftId |-> id, name |-> Str("A"), description |-> Str("d"),
     logoUrl |-> Str("u"), userWalletAddress |-> Str(w)]

ValidBodies ==
    { ValidBody(Num(1), "w1"), ValidBody(Num(1), "w2"), ValidBody(Str("2"), "w1") }

BaseBody ==
    [nftId |-> Num(1), name |-> Str("A"), description |-> Str("d"),
     logoUrl |-> Str("u"), userWalletAddress |-> Str("w1")]

BodyFields == {"nftId", "name", "description", "logoUrl", "userWalletAddress"}

\* one body per required field, in which that field is zero, empty or absent
InvalidBodies ==
    { [BaseBody EXCEPT !.nftId = Num(0)],
      [BaseBody EXCEPT !.name = Str("")],
      [BaseBody EXCEPT !.description = Undef],
      [BaseBody EXCEPT !.logoUrl = Str("")],
      [BaseBody EXCEPT !.userWalletAddress = Undef] }

Bodies == ValidBodies \cup InvalidBodies

IdParams == {"1", "x"}
WalletParams == {"w1"}

Req(kind, body, param) == [kind |-> kind, body |-> body, param |-> param]

Requests ==
    { Req("store", b, "") : b \in Bodies }
      \cup { Req("getById", NoBody, p) : p \in IdParams }
      \cup { Req("gallery", NoBody, p) : p \in WalletParams }
      \cup { Req(k, NoBody, "") : k \in {"health", "docs", "badjson", "other"} }

NoReq == Req("none", NoBody, "")

\* --------------------------------------------------------------- responses
\* A response: HTTP code, whether the body is JSON, the envelope's status
\* field, the message class, the records carried in data, and insertedId.
Resp(req, code, json, status, msg, data, id) ==
    [req |-> req, code |-> code, json |-> json, status |-> status,
     msg |-> msg, data |-> data, insertedId |-> id]

NoOut == Resp(NoReq, 0, FALSE, "", "", <<>>, 0)

\* ------------------------------------------------------------------ logging
\* What a step does towards the outside, in program order: the entries it
\* hands to logger (level and subject) and, when it sends a response, the
\* marker Sent at the position of res.json().
Log(level, msg) == [level |-> level, msg |-> msg]
Sent == Log("sent", "")

VARIABLES variant, retries, pc, i, db, exitCode, col, inflight, clock, out, events,
          sigint

vars ==
    <<variant, retries, pc, i, db, exitCode, col, inflight, clock, out, events, sigint>>

serving == <<col, inflight, clock>>

\* ----------------------------------------------------------------- startup
ExitCodeAlwaysOne(path) == 1

\* process.exit(1) where the startup gives up, process.exit(0) at the end of
\* the SIGINT handler
ExitCode(path) == IF path = "sigint" THEN 0 ELSE 1

HasRetry(v) == v /= "part_000"

InitCommon ==
    /\ variant \in Variants
    /\ pc = "connect"
    /\ i = 0
    /\ db = FALSE
    /\ exitCode = -1
    /\ col = <<>>
    /\ inflight = EmptyBag
    /\ clock = 0
    /\ out = NoOut
    /\ events = <<>>
    /\ sigint = "none"

\* the process: startServer() calls connectToMongo() with its default
Init ==
    /\ InitCommon
    /\ retries = IF HasRetry(variant) THEN DefaultRetries ELSE 1

\* connectToMongo(retries) called with any retries >= 1
InitConnect ==
    /\ InitCommon
    /\ retries \in 1..MaxRetries
    /\ HasRetry(variant) \/ retries = 1

LastAttemptOffByOne(k, r) == k = r

\* `if (i === retries - 1)` in the catch block
LastAttempt(k, r) == k = r - 1

\* await client.connect() resolves
ConnectOk ==
    /\ pc = "connect"
    /\ IF HasRetry(variant)
         THEN pc' = "ping" /\ db' = db /\ events' = <<>>
         ELSE pc' = "returned" /\ db' = TRUE /\ events' = <<Log("info", "connected")>>
    /\ out' = NoOut
    /\ UNCHANGED <<variant, retries, i, exitCode, serving, sigint>>

\* await client.db("admin").command({ping: 1}) resolves: db is set, return true
PingOk ==
    /\ pc = "ping"
    /\ db' = TRUE
    /\ pc' = "returned"
    /\ i' = 0
    /\ out' = NoOut
    /\ events' = <<Log("info", "connected")>>
    /\ UNCHANGED <<variant, retries, exitCode, serving, sigint>>

\* client.connect() or the ping rejects: the catch block
AttemptFails ==
    /\ pc \in {"connect", "ping"}
    /\ IF HasRetry(variant)
         THEN /\ pc' = IF LastAttempt(i, retries) THEN "threw" ELSE "sleep"
              /\ exitCode' = exitCode
         ELSE /\ pc' = "exited"
              /\ exitCode' = ExitCode("startup")
    /\ out' = NoOut
    /\ events' = <<Log("error", "attempt")>>
    /\ UNCHANGED <<variant, retries, i, db, serving, sigint>>

\* the 5 second timer fires; i++ and the loop condition
SleepDone ==
    /\ pc = "sleep"
    /\ IF i + 1 < retries
         THEN pc' = "connect" /\ i' = i + 1
         ELSE pc' = "returned" /\ i' = 0
    /\ out' = NoOut
    /\ events' = <<>>
    /\ UNCHANGED <<variant, retries, db, exitCode, serving, sigint>>

ListenWithoutAwait(p) == p \in {"connect", "returned"}

\* app.listen runs after `await connectToMongo()` / in its .then()
ListenReady(p) == p = "returned"

\* connectToMongo resolved: app.listen(port)
Listen ==
    /\ ListenReady(pc)
    /\ pc' = "listening"
    /\ out' = NoOut
    /\ events' = <<Log("info", "listening")>>
    /\ UNCHANGED <<variant, retries, i, db, exitCode, serving, sigint>>

\* connectToMongo rejected: startServer's catch, process.exit(1)
ExitOnFailure ==
    /\ pc = "threw"
    /\ pc' = "exited"
    /\ exitCode' = ExitCode("startup")
    /\ out' = NoOut
    /\ events' = <<Log("error", "failed")>>
    /\ UNCHANGED <<variant, retries, i, db, serving, sigint>>

NextConnect ==
    \/ ConnectOk
    \/ PingOk
    \/ AttemptFails
    \/ SleepDone
    \/ Listen
    \/ ExitOnFailure

\* Every attempt settles (the driver's server selection times out) and the
\* timer fires, so a startup step that is enabled is eventually taken.
ConnectSpec == InitConnect /\ [][NextConnect]_vars /\ WF_vars(NextConnect)

\* ---------------------------------------------------------- document store
\* the document insertOne persists; _id is the store-assigned identifier
MakeDoc(body, t, id) ==
    [_id |-> id, nftId |-> ToNumber(body.nftId), name |-> body.name,
     description |-> body.description, logoUrl |-> body.logoUrl,
     userWalletAddress |-> body.userWalletAddress, createdAt |-> t]

Docs(c) == { c[k] : k \in 1..Len(c) }

\* the documents a findOne({nftId: n}) may return
MatchNftId(c, n) == { d \in Docs(c) : d.nftId = n }

\* positions of the documents find({userWalletAddress: w}) selects
MatchWallet(c, w) == { k \in 1..Len(c) : c[k].userWalletAddress = Str(w) }

OrderedAscending(c, s) ==
    \A a, b \in 1..Len(s) : a < b => c[s[a]].createdAt <= c[s[b]].createdAt

\* .sort({createdAt: -1}): newest first; the order of ties is the store's
OrderedDescending(c, s) ==
    \A a, b \in 1..Len(s) : a < b => c[s[a]].createdAt >= c[s[b]].createdAt

\* natural (insertion) order of the selected positions
NaturalOrder(s) == \A a, b \in 1..Len(s) : a < b => s[a] < s[b]

Arrangements(S) ==
    { s \in [1..Cardinality(S) -> S] : \A a, b \in 1..Cardinality(S) : a /= b => s[a] /= s[b] }

\* the lists toArray() may produce for wallet w
FindResults(v, c, w) ==
    { [k \in 1..Len(s) |-> c[s[k]]] :
        s \in { s \in Arrangements(MatchWallet(c, w)) :
                  IF v = "part_001" THEN OrderedDescending(c, s) ELSE NaturalOrder(s) } }

\* ------------------------------------------------------------ the handlers
ExistingRaw(c, body) == MatchNftId(c, body.nftId)

\* findOne({ nftId: Number(nftId) }) of the existence check
Existing(c, body) == MatchNftId(c, ToNumber(body.nftId))

GetQueryRaw(param) == Str(param)

\* Number(req.params.nftId)
GetQuery(param) == ToNumber(Str(param))

HasHealth(v) == v /= "part_000"
NoGate(v) == FALSE
HasGate(v) == v /= "part_000"
HasExistenceCheck(v) == v /= "part_000"
HasReadRoutes(v) == v /= "index"
Strict(v) == v = "part_001"

Entry(req, op, t) == [req |-> req, op |-> op, createdAt |-> t]
NoEntry == Entry(NoReq, "", 0)

Respond(r) == [respond |-> TRUE, resp |-> r, entry |-> NoEntry]
Await(e) == [respond |-> FALSE, resp |-> NoOut, entry |-> e]

ErrorMiddlewarePlain(req) == Resp(req, 500, FALSE, "", "html", <<>>, 0)

\* app.use((err, req, res, next) => ...): reached through next(err)
ErrorMiddleware(req) == Resp(req, 500, TRUE, "error", "unexpected", <<>>, 0)

\* no route matched: Express's own 404 page, which is not JSON
FinalHandler(req) == Resp(req, 404, FALSE, "", "html", <<>>, 0)

\* /api-docs: the Swagger UI page
SwaggerUi(req) == Resp(req, 200, FALSE, "", "html", <<>>, 0)

Health(req, dbset) ==
    Resp(req, 200, TRUE, "success",
         IF dbset THEN "connected" ELSE "disconnected", <<>>, 0)

GateReject(req) == Resp(req, 500, TRUE, "error", "nodb", <<>>, 0)

CatchCodeAlways400(v) == 400

\* the status the handlers' catch blocks send
CatchCode(v) == IF v = "part_000" THEN 400 ELSE 500

Caught(v, req) == Resp(req, CatchCode(v), TRUE, "error", "internal", <<>>, 0)

MissingFieldIgnoringWallet(b) ==
    \/ ~Truthy(b.nftId)
    \/ ~Truthy(b.name)
    \/ ~Truthy(b.description)
    \/ ~Truthy(b.logoUrl)

\* !nftId || !name || !description || !logoUrl || !userWalletAddress
MissingField(b) ==
    \/ ~Truthy(b.nftId)
    \/ ~Truthy(b.name)
    \/ ~Truthy(b.description)
    \/ ~Truthy(b.logoUrl)
    \/ ~Truthy(b.userWalletAddress)

\* POST /api/nft/store up to its first await
StoreHandler(v, dbset, req, t) ==
    IF MissingField(req.body)
      THEN Respond(Resp(req, 400, TRUE, "error", "missing", <<>>, 0))
    ELSE IF ~dbset
      THEN Respond(Caught(v, req))
    ELSE IF HasExistenceCheck(v)
      THEN Await(Entry(req, "findOne", 0))
    ELSE Await(Entry(req, "insertOne", t))

\* GET /api/nft/:nftId up to its first await
GetHandler(v, dbset, req) ==
    IF Strict(v) /\ IsNaN(GetQuery(req.param))
      THEN Respond(Resp(req, 400, TRUE, "error", "badid", <<>>, 0))
    ELSE IF ~dbset
      THEN Respond(Caught(v, req))
    ELSE Await(Entry(req, "findOne", 0))

\* GET /api/nft/gallery/:userWalletAddress up to its first await
GalleryHandler(v, dbset, req) ==
    IF Strict(v) /\ ~Truthy(Str(req.param))
      THEN Respond(Resp(req, 400, TRUE, "error", "missing", <<>>, 0))
    ELSE IF ~dbset
      THEN Respond(Caught(v, req))
    ELSE Await(Entry(req, "find", 0))

\* the middleware stack in registration order
Dispatch(v, dbset, req, t) ==
    IF req.kind = "badjson" THEN Respond(ErrorMiddleware(req))
    ELSE IF req.kind = "docs" THEN Respond(SwaggerUi(req))
    ELSE IF req.kind = "health" /\ HasHealth(v) THEN Respond(Health(req, dbset))
    ELSE IF HasGate(v) /\ ~dbset THEN Respond(GateReject(req))
    ELSE IF req.kind = "store" THEN StoreHandler(v, dbset, req, t)
    ELSE IF req.kind = "getById" /\ HasReadRoutes(v) THEN GetHandler(v, dbset, req)
    ELSE IF req.kind = "gallery" /\ HasReadRoutes(v) THEN GalleryHandler(v, dbset, req)
    ELSE Respond(FinalHandler(req))

\* logger.info(`${req.method} ${req.url}`): the logging middleware, which is
\* registered after express.json() and after /api-docs
RequestLog(req) ==
    IF req.kind \in {"badjson", "docs"} THEN <<>> ELSE <<Log("info", "request")>>

CatchEventsSendFirst == <<Sent, Log("error", "caught")>>

\* catch (error) { logger.error(...); res.status(...).json(...) }
CatchEvents == <<Log("error", "caught"), Sent>>

\* the error middleware: logger.error('Unhandled error:', err), then the 500
MiddlewareEvents == <<Log("error", "unhandled"), Sent>>

\* what the code does on its way to sending response r: the logger calls
\* that precede res.json() on that branch, then the send
ResponseEvents(v, r) ==
    CASE r.msg = "internal" -> CatchEvents
      [] r.msg = "unexpected" -> MiddlewareEvents
      [] r.msg = "notfound" /\ v = "part_000" -> <<Log("warn", "notfound"), Sent>>
      [] r.msg \in {"ok", "stored"} -> <<Log("info", "done"), Sent>>
      [] OTHER -> <<Sent>>

\* what GET /api/nft/:nftId may answer when its findOne resolves on c
GetByIdResponses(c, req) ==
    LET m == MatchNftId(c, GetQuery(req.param)) IN
    IF m = {}
      THEN { Resp(req, 404, TRUE, "error", "notfound", <<>>, 0) }
      ELSE { Resp(req, 200, TRUE, "success", "ok", <<d>>, 0) : d \in m }

\* A read changes nothing in the store, so reads do not affect one another:
\* one read in flight beside the creates shows every answer a read can get.
ReadsInFlight == { e \in BagToSet(inflight) : e.req.kind /= "store" }

StoresInFlight == { e \in BagToSet(inflight) : e.req.kind = "store" }

PendingStores ==
    LET S == StoresInFlight
        count[T \in SUBSET S] ==
            IF T = {} THEN 0
            ELSE LET e == CHOOSE x \in T : TRUE
                 IN CopiesIn(e, inflight) + count[T \ {e}]
    IN count[S]

Take(e) == inflight (-) SetToBag({e})

\* a request is handled up to its response or its first store operation
Handle(req) ==
    LET o == Dispatch(variant, db, req, clock) IN
    /\ IF o.respond
         THEN /\ out' = o.resp
              /\ inflight' = inflight
              /\ events' = RequestLog(req) \o ResponseEvents(variant, o.resp)
         ELSE /\ IF req.kind = "store"
                   THEN Len(col) + PendingStores < MaxDocs
                   ELSE ReadsInFlight = {}
              /\ out' = NoOut
              /\ inflight' = inflight (+) SetToBag({o.entry})
              /\ events' = RequestLog(req)
    /\ UNCHANGED <<variant, retries, pc, i, db, exitCode, col, clock, sigint>>

\* a request reaches the listening server
Arrive ==
    /\ pc = "listening"
    /\ \E req \in Requests : Handle(req)

\* a request is handed to the app while the process is still connecting
ArriveDirect ==
    /\ pc \in {"connect", "ping", "sleep"}
    /\ \E req \in Requests : Handle(req)

\* the existence check's findOne resolves
StoreFindOneDone ==
    /\ pc /= "exited"
    /\ \E e \in BagToSet(inflight) :
      /\ e.req.kind = "store" /\ e.op = "findOne"
      /\ IF Existing(col, e.req.body) /= {}
           THEN /\ out' = Resp(e.req, 400, TRUE, "error", "duplicate", <<>>, 0)
                /\ inflight' = Take(e)
                /\ events' = <<Sent>>
           ELSE /\ out' = NoOut
                /\ events' = <<>>
                /\ inflight' = Take(e) (+) SetToBag({Entry(e.req, "insertOne", clock)})
      /\ UNCHANGED <<variant, retries, pc, i, db, exitCode, col, clock, sigint>>

InsertedUnlessPresent(c, doc) ==
    IF MatchNftId(c, doc.nftId) = {} THEN Append(c, doc) ELSE c

\* insertOne(doc) on a collection without a unique index: always added
Inserted(c, doc) == Append(c, doc)

\* insertOne resolves: the document is persisted and 201 is sent
InsertOneDone ==
    /\ pc /= "exited"
    /\ \E e \in BagToSet(inflight) :
      /\ e.req.kind = "store" /\ e.op = "insertOne"
      /\ col' = Inserted(col, MakeDoc(e.req.body, e.createdAt, Len(col) + 1))
      /\ out' = Resp(e.req, 201, TRUE, "success", "stored", <<>>,
                     IF variant = "part_000" THEN 0 ELSE Len(col) + 1)
      /\ events' = ResponseEvents(variant, out')
      /\ inflight' = Take(e)
      /\ UNCHANGED <<variant, retries, pc, i, db, exitCode, clock, sigint>>

\* GET /api/nft/:nftId: findOne resolves
GetFindOneDone ==
    /\ pc /= "exited"
    /\ \E e \in BagToSet(inflight) :
      /\ e.req.kind = "getById" /\ e.op = "findOne"
      /\ \E r \in GetByIdResponses(col, e.req) : out' = r
      /\ events' = ResponseEvents(variant, out')
      /\ inflight' = Take(e)
      /\ UNCHANGED <<variant, retries, pc, i, db, exitCode, col, clock, sigint>>

\* GET /api/nft/gallery/:userWalletAddress: find().toArray() resolves
GalleryFindDone ==
    /\ pc /= "exited"
    /\ \E e \in BagToSet(inflight) :
      /\ e.req.kind = "gallery" /\ e.op = "find"
      /\ \E nfts \in FindResults(variant, col, e.req.param) :
           IF Strict(variant) /\ Len(nfts) = 0
             THEN out' = Resp(e.req, 404, TRUE, "error", "notfound", <<>>, 0)
             ELSE out' = Resp(e.req, 200, TRUE, "success", "ok", nfts, 0)
      /\ events' = ResponseEvents(variant, out')
      /\ inflight' = Take(e)
      /\ UNCHANGED <<variant, retries, pc, i, db, exitCode, col, clock, sigint>>

\* a store operation rejects: the handler's catch block
OpFails ==
    /\ pc /= "exited"
    /\ \E e \in BagToSet(inflight) :
      /\ out' = Caught(variant, e.req)
      /\ events' = CatchEvents
      /\ inflight' = Take(e)
      /\ UNCHANGED <<variant, retries, pc, i, db, exitCode, col, clock, sigint>>

\* time passes (new Date() reads the clock)
Tick ==
    /\ pc = "listening"
    /\ clock < MaxClock
    /\ clock' = clock + 1
    /\ out' = NoOut
    /\ events' = <<>>
    /\ UNCHANGED <<variant, retries, pc, i, db, exitCode, col, inflight, sigint>>

\* ---------------------------------------------------------------- shutdown
\* sigint is the position of the SIGINT handler: "none" (not running),
\* "closing" (awaiting client.close()), "closed" (close resolved, exit called).

\* SIGINT is delivered: the handler calls client.close() and awaits it.  The
\* rest of the process keeps running meanwhile.  (A further SIGINT while the
\* close is pending calls close() again and changes nothing here.)
Sigint ==
    /\ pc /= "exited"
    /\ sigint = "none"
    /\ sigint' = "closing"
    /\ out' = NoOut
    /\ events' = <<>>
    /\ UNCHANGED <<variant, retries, pc, i, db, exitCode, serving>>

\* client.close() resolves: the handler logs and calls process.exit(0)
CloseDone ==
    /\ pc /= "exited"
    /\ sigint = "closing"
    /\ sigint' = "closed"
    /\ pc' = "exited"
    /\ exitCode' = ExitCode("sigint")
    /\ out' = NoOut
    /\ events' = <<Log("info", "closed")>>
    /\ UNCHANGED <<variant, retries, i, db, serving>>

\* client.close() rejects: the handler ends there, the unhandledRejection
\* handler logs the reason and the process goes on
CloseFails ==
    /\ pc /= "exited"
    /\ sigint = "closing"
    /\ sigint' = "none"
    /\ out' = NoOut
    /\ events' = <<Log("error", "rejection")>>
    /\ UNCHANGED <<variant, retries, pc, i, db, exitCode, serving>>

Next ==
    \/ ConnectOk
    \/ PingOk
    \/ AttemptFails
    \/ SleepDone
    \/ Listen
    \/ ExitOnFailure
    \/ Arrive
    \/ StoreFindOneDone
    \/ InsertOneDone
    \/ GetFindOneDone
    \/ GalleryFindDone
    \/ OpFails
    \/ Tick
    \/ Sigint
    \/ CloseDone
    \/ CloseFails

Spec == Init /\ [][Next]_vars

NextApp == Next \/ ArriveDirect

\* the app's middleware stack exercised before the server listens as well
AppSpec == Init /\ [][NextApp]_vars

\* ------------------------------------------------------------- the claims
\* variants whose store handler has the existence check / the gate
CheckedVariants == {"index", "part_001"}
\* variants that register the two GET routes
ReadVariants == {"part_000", "part_001"}

IntParam(n) == CASE n = 1 -> "1" [] n = 2 -> "2" [] OTHER -> "x"

AbsentOrEmpty(v) == v = Undef \/ v = Str("")

SomeFieldAbsentOrEmpty(b) == \E f \in BodyFields : AbsentOrEmpty(b[f])

SameFields(d, b) ==
    /\ d.nftId = b.nftId
    /\ d.name = b.name
    /\ d.description = b.description
    /\ d.logoUrl = b.logoUrl
    /\ d.userWalletAddress = b.userWalletAddress

\* out is the 201 of a store request whose nftId is an integer
Created201 ==
    /\ out.req.kind = "store"
    /\ out.code = 201
    /\ out.req.body.nftId.t = "number"

\* C1: in part_001, right after a store request with an integer nftId was
\* answered 201, every answer GET /api/nft/<nftId> can give when its lookup
\* resolves is a 200 carrying one record whose five fields equal the input,
\* with a store-assigned _id and a createdAt.
C1_RoundTrip ==
    (variant = "part_001" /\ Created201) =>
      \A r \in GetByIdResponses(col, Req("getById", NoBody, IntParam(out.req.body.nftId.n))) :
        /\ r.code = 200
        /\ Len(r.data) = 1
        /\ SameFields(r.data[1], out.req.body)
        /\ r.data[1]._id \in 1..Len(col)
        /\ r.data[1].createdAt \in 0..clock

Stored(c, n) == \E k \in 1..Len(c) : c[k].nftId = n

\* C2: in the variants with the existence check, a store request whose
\* nftId is already stored never has an insert issued for it: an insertOne is
\* only started while no record with that nftId is stored, and when the
\* existence check of such a request resolves the request is answered
\* 400 / "error" (duplicate) and the collection is unchanged.
C2_Step ==
    ( variant \in CheckedVariants =>
          /\ \A e \in BagToSet(inflight') :
               (e.op = "insertOne" /\ CopiesIn(e, inflight') > CopiesIn(e, inflight))
                 => ~Stored(col, ToNumber(e.req.body.nftId))
          /\ \A e \in BagToSet(inflight) :
               ( /\ e.req.kind = "store"
                 /\ e.op = "findOne"
                 /\ Stored(col, ToNumber(e.req.body.nftId))
                 /\ CopiesIn(e, inflight') < CopiesIn(e, inflight)
                 /\ out' /= Caught(variant, e.req) )
                 => /\ out'.req = e.req
                    /\ out'.code = 400
                    /\ out'.status = "error"
                    /\ out'.msg = "duplicate"
                    /\ col' = col
                    /\ inflight' = Take(e) )

C2_DuplicateRejected == [][C2_Step]_vars

\* a duplicate was just rejected although the body spells the id differently
C2_Witness ==
    /\ variant = "part_001"
    /\ out.msg = "duplicate"
    /\ out.code = 400
    /\ out.req.body.nftId = Str("2")
    /\ Len(col) = 1
    /\ col[1].nftId = Num(2)
    /\ inflight = EmptyBag

\* C3: no two persisted records have the same nftId.
C3_UniqueNftId ==
    \A a, b \in 1..Len(col) : a /= b => col[a].nftId /= col[b].nftId

\* C4: a store request with an absent or empty field is answered 400 /
\* "error" in the step it arrives, that step changes neither the collection
\* nor the operations in flight, no store operation is ever in flight for
\* such a request, and no persisted record has an absent or empty field.
\* (Nothing is in flight or persisted initially, so the last two are looked
\* at in the steps that change the operations in flight or the collection.)
C4_Step ==
        /\ inflight' /= inflight =>
             \A e \in BagToSet(inflight') :
               e.req.kind = "store" => ~SomeFieldAbsentOrEmpty(e.req.body)
        /\ (out'.req.kind = "store" /\ SomeFieldAbsentOrEmpty(out'.req.body))
             => /\ out'.code = 400
                /\ out'.status = "error"
                /\ col' = col
                /\ inflight' = inflight
        /\ col' /= col => \A k \in 1..Len(col') :
             /\ col'[k].nftId.t = "number"
             /\ ~AbsentOrEmpty(col'[k].name)
             /\ ~AbsentOrEmpty(col'[k].description)
             /\ ~AbsentOrEmpty(col'[k].logoUrl)
             /\ ~AbsentOrEmpty(col'[k].userWalletAddress)

C4_MissingFieldRejected == [][C4_Step]_vars

\* a request lacking only its wallet address was just answered 400 while a
\* record with the same nftId is absent from the collection
C4_Witness ==
    /\ out.req.kind = "store"
    /\ out.req.body.userWalletAddress = Undef
    /\ Truthy(out.req.body.nftId)
    /\ out.code = 400
    /\ Len(col) = 1
    /\ ~Stored(col, ToNumber(out.req.body.nftId))

\* C5: when the gallery's find resolves, the records the response carries
\* are exactly the persisted records of that wallet, each once (a 404
\* carries none and is sent only by part_001 for an empty gallery), and in
\* part_001 they are ordered by createdAt, newest first.
C5_GalleryExact ==
    (out.req.kind = "gallery" /\ variant \in ReadVariants /\ out.msg /= "internal") =>
      /\ { out.data[k] : k \in 1..Len(out.data) }
           = { d \in Docs(col) : d.userWalletAddress = Str(out.req.param) }
      /\ \A a, b \in 1..Len(out.data) : a /= b => out.data[a] /= out.data[b]
      /\ out.code \in {200, 404}
      /\ (out.code = 404) <=> (variant = "part_001" /\ Len(out.data) = 0)
      /\ variant = "part_001" =>
           (\A a, b \in 1..Len(out.data) :
              (a < b) => (out.data[a].createdAt >= out.data[b].createdAt))

\* part_001 answered a gallery of two records, the later inserted one first
C5_Witness ==
    /\ variant = "part_001"
    /\ out.req.kind = "gallery"
    /\ out.code = 200
    /\ Len(out.data) = 2
    /\ Len(col) = 2
    /\ out.data[1].createdAt > out.data[2].createdAt
    /\ out.data[1]._id > out.data[2]._id

\* C6: when the findOne of GET /api/nft/<n>, n numeric, resolves, the
\* answer is 404 exactly if no persisted record has nftId = n, and is
\* otherwise 200 with one record whose nftId is n.
C6_NotFoundIff ==
    \A n \in {1} :
      ( /\ out.req.kind = "getById"
        /\ out.req.param = IntParam(n)
        /\ variant \in ReadVariants
        /\ out.msg /= "internal" ) =>
          /\ (out.code = 404) <=> ~Stored(col, Num(n))
          /\ (out.code /= 404) =>
               /\ out.code = 200
               /\ Len(out.data) = 1
               /\ out.data[1].nftId = Num(n)
               /\ out.data[1] \in Docs(col)

\* id 2 was just answered 404 while a record with id 1 is stored
C6_Witness ==
    /\ out.req.kind = "getById"
    /\ out.req.param = "1"
    /\ out.code = 404
    /\ Stored(col, Num(2))

\* C7: connectToMongo(retries), retries >= 1: an attempt is only made while
\* fewer than `retries` were made, the delay is slept only when a further
\* attempt follows, the function returns only with the db handle set and
\* the handle is set only by the return, no attempt follows a return or a
\* throw, the error is thrown in iteration retries - 1 and only there, and
\* the function ends.
C7_State ==
    HasRetry(variant) =>
      /\ pc \in {"connect", "ping", "sleep"} => (i + 1 <= retries /\ ~db)
      /\ pc = "sleep" => i + 1 < retries
      /\ pc = "returned" => db
      /\ pc = "threw" => (i = retries - 1 /\ ~db)

C7_Step ==
    HasRetry(variant) =>
      /\ pc \in {"returned", "threw", "listening", "exited"}
           => pc' \notin {"connect", "ping", "sleep"}
      /\ (pc = "sleep" /\ pc' = "connect") => i' = i + 1
      /\ (pc \in {"connect", "ping"} /\ pc' \in {"ping", "sleep", "threw"}) => i' = i
      /\ pc' = "threw" => pc \in {"connect", "ping"}
      /\ pc' = "returned" => pc = "ping"

C7_ConnectWithRetry ==
    /\ [][C7_State' /\ C7_Step]_vars
    /\ <>(pc \in {"returned", "threw", "listening", "exited"})

\* the third of three attempts failed and the error is being propagated
C7_Witness ==
    /\ variant = "part_001"
    /\ retries = 3
    /\ pc = "threw"
    /\ i = 2

\* C8: in the variants with the gate, while the db handle is unset no
\* store operation is in flight and nothing is persisted, every request to
\* an API route or an unmatched route is answered by the gate's 500 /
\* "error", a request whose body fails to parse is answered 500 / "error",
\* and the health route answers 200 / "success".
C8_Gate ==
    (variant \in CheckedVariants /\ ~db) =>
      /\ inflight = EmptyBag
      /\ col = <<>>
      /\ out.req.kind \in {"store", "getById", "gallery", "other"} =>
           /\ out.code = 500
           /\ out.json
           /\ out.status = "error"
           /\ out.msg = "nodb"
      /\ out.req.kind = "badjson" => (out.code = 500 /\ out.json /\ out.status = "error")
      /\ out.req.kind = "health" =>
           /\ out.code = 200
           /\ out.json
           /\ out.status = "success"
           /\ out.msg = "disconnected"

\* a well-formed store request was just turned away while db is unset
C8_Witness ==
    /\ variant = "part_001"
    /\ ~db
    /\ out.req.kind = "store"
    /\ ~SomeFieldAbsentOrEmpty(out.req.body)
    /\ out.code = 500

\* C9 as stated: every response, the documentation page aside, is a JSON
\* envelope whose status is "success" or "error".
C9_EveryResponseEnveloped ==
    (out /= NoOut /\ out.req.kind /= "docs") =>
      (out.json /\ out.status \in {"success", "error"})

\* the requests a variant answers from its own handlers or error middleware
Routed(v, req) ==
    \/ req.kind \in {"store", "badjson"}
    \/ req.kind = "health" /\ v \in CheckedVariants
    \/ req.kind \in {"getById", "gallery"} /\ v \in ReadVariants

C9_State ==
    (out /= NoOut /\ Routed(variant, out.req)) =>
      /\ out.json
      /\ out.status \in {"success", "error"}
      /\ out.code \in {200, 201, 400, 404, 500}

C9_Step ==
    /\ BagCardinality(inflight') > BagCardinality(inflight) => out' = NoOut
    /\ BagCardinality(inflight') < BagCardinality(inflight) => out' /= NoOut
    /\ out' /= NoOut =>
         \/ inflight' = inflight
         \/ \E e \in BagToSet(inflight) : inflight' = Take(e) /\ out'.req = e.req
    /\ (out' = NoOut /\ inflight' /= inflight) =>
         \/ \E e \in BagToSet(inflight') : inflight = inflight' (-) SetToBag({e})
         \/ \E e \in BagToSet(inflight), f \in BagToSet(inflight') :
              /\ f.req = e.req
              /\ inflight' = Take(e) (+) SetToBag({f})

\* C9 (amended): a request to a registered route, or one whose body fails to
\* parse, is answered by a JSON envelope whose status is "success" or
\* "error"; a request is either answered in the step it arrives or put in
\* flight unanswered, and it leaves flight only in the step that answers it.
C9_Enveloped == [][C9_State' /\ C9_Step]_vars

\* the error middleware just answered a request whose body did not parse
C9_Witness ==
    /\ out.req.kind = "badjson"
    /\ out.code = 500
    /\ out.json
    /\ out.status = "error"
    /\ inflight /= EmptyBag

\* C10 as stated: a failed store operation is answered 500.
C10_Failure500 == [][OpFails => out'.code = 500]_vars

\* C10 (amended): a failed store operation is answered by the catch block,
\* 500 in index.js and part_001 and 400 in part_000, with status "error";
\* the request leaves flight in that step (no operation is issued again)
\* and the collection is unchanged.
C10_FailureMapped ==
    [][OpFails =>
         /\ out'.code = IF variant \in CheckedVariants THEN 500 ELSE 400
         /\ out'.json
         /\ out'.status = "error"
         /\ col' = col
         /\ BagCardinality(inflight') = BagCardinality(inflight) - 1
         /\ \E e \in BagToSet(inflight) : inflight' = Take(e) /\ out'.req = e.req]_vars

\* part_001 just answered 500 for a store request whose operation failed
C10_Witness ==
    /\ variant = "part_001"
    /\ out.req.kind = "store"
    /\ out.msg = "internal"
    /\ out.code = 500
    /\ Len(col) = 1

\* the error responses of the taxonomy: a JSON envelope with status "error"
ErrorResponse(r) == r.json /\ r.status = "error"

\* an entry of level error or warn was written before the response was sent
ErrorLoggedBeforeSend(ev) ==
    \E a, b \in 1..Len(ev) :
      a < b /\ ev[b] = Sent /\ ev[a].level \in {"error", "warn"}

NoErrorLogged(ev) == \A a \in 1..Len(ev) : ev[a].level \notin {"error", "warn"}

\* C11 as stated: every error response is preceded, in the step that sends
\* it, by a log entry for that error.
C11_ErrorsLogged == ErrorResponse(out) => ErrorLoggedBeforeSend(events)

\* C11 (amended): a step sends a response exactly when it has one to send;
\* the response of a catch block or of the error middleware is preceded by an
\* error entry, the 404 of part_000's get-by-id by a warning; the 400s for
\* missing fields, a duplicate id and a malformed id, the other 404s and
\* the gate's 500 are sent without any error or warning entry.
C11_CaughtErrorsLogged ==
    /\ (out /= NoOut) <=> (\E a \in 1..Len(events) : events[a] = Sent)
    /\ out.msg \in {"internal", "unexpected"} => ErrorLoggedBeforeSend(events)
    /\ (out.msg = "notfound" /\ variant = "part_000") => ErrorLoggedBeforeSend(events)
    /\ ( \/ out.msg \in {"missing", "duplicate", "badid", "nodb"}
         \/ out.msg = "notfound" /\ variant /= "part_000" )
         => (ErrorResponse(out) /\ NoErrorLogged(events))

\* part_001 just answered 500 for a lookup that failed, having logged it
C11_Witness ==
    /\ variant = "part_001"
    /\ out.req.kind = "getById"
    /\ out.code = 500
    /\ out.msg = "internal"
    /\ events = <<Log("error", "caught"), Sent>>

\* C12 as stated: once SIGINT has been delivered, the process exits only
\* with code 0 and only after client.close() has completed.
C12_ShutdownOrdering ==
    [][(sigint /= "none" /\ pc /= "exited" /\ pc' = "exited")
         => (exitCode' = 0 /\ sigint' = "closed")]_vars

C12_Step ==
    /\ pc /= "exited"
    /\ (sigint = "none" /\ sigint' /= "none") =>
         /\ sigint' = "closing"
         /\ pc' = pc
         /\ exitCode' = exitCode
         /\ serving' = serving
    /\ (sigint' = "closed" \/ exitCode' = 0) =>
         /\ sigint = "closing"
         /\ sigint' = "closed"
         /\ pc' = "exited"
         /\ exitCode' = 0
         /\ events' = <<Log("info", "closed")>>
    /\ (pc' = "exited" /\ exitCode' /= 0) =>
         /\ exitCode' = 1
         /\ pc \in {"connect", "ping", "threw"}
         /\ sigint' = sigint
    /\ (sigint = "closing" /\ sigint' = "none") =>
         /\ pc' = pc
         /\ exitCode' = exitCode
         /\ events' = <<Log("error", "rejection")>>

\* C12 (amended): SIGINT can be delivered in any state of the live process
\* and only starts client.close(); the process exits with code 0 only from
\* the SIGINT handler, in the step in which close() has completed; while
\* close() is pending the process keeps running, and the only other exit is
\* code 1 from a failed connection attempt of the startup; when close()
\* rejects, the handler ends without exiting.  Nothing happens after exit.
C12_CleanExitAfterClose == [][C12_Step]_vars

\* part_001 was serving, with a request in flight and a record stored, when
\* SIGINT came; close() completed and the process exited with code 0
C12_Witness ==
    /\ variant = "part_001"
    /\ pc = "exited"
    /\ exitCode = 0
    /\ sigint = "closed"
    /\ db
    /\ inflight /= EmptyBag
    /\ Len(col) = 1

\* C13: in the variants with the existence check, the check is decided by
\* the collection at the moment its findOne resolves (the request goes on to
\* insertOne exactly when no record with its nftId is stored then), and an
\* insertOne that resolves is answered 201 and adds its record whatever the
\* collection holds by then, also a record with the same nftId.
C13_Step ==
    variant \in CheckedVariants =>
      \A e \in BagToSet(inflight) :
        ( /\ e.req.kind = "store"
          /\ CopiesIn(e, inflight') < CopiesIn(e, inflight)
          /\ out' /= Caught(variant, e.req) )
          => IF e.op = "findOne"
               THEN (out' = NoOut) <=> ~Stored(col, ToNumber(e.req.body.nftId))
               ELSE /\ out'.req = e.req
                    /\ out'.code = 201
                    /\ out'.status = "success"
                    /\ Len(col') = Len(col) + 1
                    /\ SameFields(col'[Len(col')],
                                  [e.req.body EXCEPT !.nftId = ToNumber(e.req.body.nftId)])
                    /\ \A k \in 1..Len(col) : col'[k] = col[k]

C13_CheckThenInsertRace == [][C13_Step]_vars

\* two requests with nftId 1 and different wallets were both inserted in
\* part_001, the second one just answered 201, and nothing else was stored
C13_Witness ==
    /\ variant = "part_001"
    /\ Len(col) = 2
    /\ col[1].nftId = Num(1)
    /\ col[2].nftId = Num(1)
    /\ col[1].userWalletAddress /= col[2].userWalletAddress
    /\ out.req.kind = "store"
    /\ out.code = 201
    /\ out.insertedId = 2
    /\ inflight = EmptyBag

\* in this state the server listens only with db set, whatever a handler
\* did (a response, an operation in flight, a record) was done with db set,
\* and the last response is neither the gate's 500 nor a health answer
\* reporting "disconnected"
C14_State ==
    /\ pc = "listening" => db
    /\ (out /= NoOut \/ inflight /= EmptyBag \/ col /= <<>>) => db
    /\ out.msg \notin {"nodb", "disconnected"}
    /\ exitCode = 1 => (out = NoOut /\ inflight = EmptyBag /\ col = <<>>)

C14_Step ==
    /\ C14_State'
    /\ (pc' = "listening" /\ pc /= "listening") => (pc = "returned" /\ db)
    /\ (out' /= NoOut \/ inflight' /= inflight) => (pc = "listening" /\ db)
    /\ pc = "listening" => (pc' \in {"listening", "exited"} /\ exitCode' /= 1)
    /\ pc = "threw" => pc' \in {"threw", "exited"}
    /\ (pc' = "exited" /\ sigint' = sigint) => exitCode' = 1
    /\ exitCode' = 1 => pc \in {"connect", "ping", "threw"}

\* C14: the server starts listening only from a resolved connectToMongo,
\* with db set; requests are handled only while it listens; a failed
\* startup (part_000: a failed connect; otherwise the last failed attempt)
\* exits with code 1 and never listens; so every handler runs with db set
\* and no response is the gate's 500 or a health answer "disconnected".
C14_ListenAfterConnect == [][C14_Step]_vars

\* the listening part_001 just answered a health request: "connected"
C14_Witness ==
    /\ variant = "part_001"
    /\ pc = "listening"
    /\ out.req.kind = "health"
    /\ out.code = 200
    /\ out.msg = "connected"
====
